---- MODULE Spec2Model ----
(***************************************************************************)
(* Storage backends of sample-backend.                                     *)
(*                                                                         *)
(* RepositoryBytearray (myrepository/repository_bytearray.py): records     *)
(* live in one flat bytearray; the id of a record is its slot position,    *)
(* the other fields are stored as the JSON text of the record, padded      *)
(* with zero bytes.  Bytes are numbers 0..255, strings are sequences of    *)
(* code points, the buffer is a function on the Python indices             *)
(* 0..len(db)-1 and every index expression keeps Python's meaning          *)
(* (a negative index counts from the end, an index outside the buffer      *)
(* raises IndexError).                                                     *)
(*                                                                         *)
(* CacheLRU (myrepository/cache_lru.py): an OrderedDict of at most         *)
(* maxsize entries, the least recently used at the head.                   *)
(***************************************************************************)
EXTENDS Integers, Sequences, FiniteSets, TLC

VARIABLES db, last, held, tomb, amap, cache, max_size, touched, latest,
          pg_table, sql_cache, od, lst, tasks

\* the variables of the slotted store and those of the LRU cache
store_vars == <<db, held, tomb, amap>>
cache_vars == <<cache, max_size, touched, latest>>

\* the table of the database with the dict cache of RepositoryPostgres, and
\* the ordered-map store and the list store
pg_vars == <<pg_table, sql_cache>>
mem_vars == <<od, lst>>

\* the calls of RepositoryAsyncpg that are suspended at an await
task_vars == <<tasks>>

\* the name and the argument of the latest call stand first and its result
\* last: two states are told apart by the call and the stored data before
\* results of different kinds are compared
vars == <<last.op, last.arg, store_vars, cache_vars,
          pg_vars, mem_vars, task_vars, last>>

---------------------------------------------------------------------------
(* Constants of the program *)

PAGE_LIMIT == 10

field_length == 40

db_length == 15

\* ENTITY_TEMPLATE has the fields id, title, value
amount_of_fields == 2

entry_length == amount_of_fields * field_length

\* len(self.__db)
DbLen == entry_length * db_length

---------------------------------------------------------------------------
(* Inputs of the model *)

\* length of the title whose JSON text does not fit one slot
LongLen == 60

LongTitle == [i \in 1..LongLen |-> 66]

\* "A", the three characters  " \ e-acute , and the long title
Titles == {<<65>>, <<34, 92, 233>>, LongTitle}

\* "v"
Values == {<<118>>}

\* ids handed to get/add/delete/update: below the range, the two ends of
\* the range, and above the range
Ids == {0, 1, db_length, db_length + 1}

ValidIds == {1, 10, db_length}

Pages == {0, 1, 2, 3}

Entities(ids, titles) == [id : ids, title : titles, value : Values]

---------------------------------------------------------------------------
(* Python values *)

\* the dict {}
EmptyDict == <<>>

NoException == "none"

Returned(v) == [exc |-> NoException, val |-> v]

Raised(e) == [exc |-> e, val |-> <<>>]

\* a bool compared with an int: False == 0, True == 1
BoolAsInt(b) == IF b THEN 1 ELSE 0

\* db[i] is defined for -len(db) <= i < len(db)
ValidIndex(i) == i >= -DbLen /\ i < DbLen

\* the position db[i] names
Norm(i) == IF i < 0 THEN i + DbLen ELSE i

\* the bounds of the slice db[a:b]
SliceBound(a) == IF a < 0 THEN (IF a + DbLen < 0 THEN 0 ELSE a + DbLen)
                 ELSE (IF a > DbLen THEN DbLen ELSE a)

\* db[a:b] as a sequence of bytes
PySlice(d, a, b) ==
    LET lo == SliceBound(a)
        hi == SliceBound(b)
    IN  IF hi <= lo THEN <<>> ELSE [i \in 1..(hi - lo) |-> d[lo + i - 1]]

\* the length of s[1..n] without its trailing zero bytes
RECURSIVE StrippedLen(_, _)
StrippedLen(s, n) == IF n = 0 \/ s[n] # 0 THEN n ELSE StrippedLen(s, n - 1)

\* bytes.rstrip(b"\x00")
RStrip(s) == SubSeq(s, 1, StrippedLen(s, Len(s)))

---------------------------------------------------------------------------
(* json.dumps and json.loads on a record's non-id fields *)

KeyTitle == <<116, 105, 116, 108, 101>>

KeyValue == <<118, 97, 108, 117, 101>>

\* a lower-case hexadecimal digit
HexDigit(n) == IF n < 10 THEN 48 + n ELSE 87 + n

HexValue(c) == IF c >= 48 /\ c <= 57 THEN c - 48
               ELSE IF c >= 97 /\ c <= 102 THEN c - 87
               ELSE IF c >= 65 /\ c <= 70 THEN c - 55
               ELSE -1

\* one character of a string as json.dumps(ensure_ascii=True) writes it
EscapeChar(c) ==
    IF c = 34 THEN <<92, 34>>
    ELSE IF c = 92 THEN <<92, 92>>
    ELSE IF c >= 32 /\ c < 127 THEN <<c>>
    ELSE <<92, 117, HexDigit((c \div 4096) % 16), HexDigit((c \div 256) % 16),
           HexDigit((c \div 16) % 16), HexDigit(c % 16)>>

RECURSIVE Escape(_)
Escape(s) == IF s = <<>> THEN <<>> ELSE EscapeChar(Head(s)) \o Escape(Tail(s))

Quoted(bytes) == <<34>> \o bytes \o <<34>>

\* json.dumps({"title": t, "value": v}) encoded as utf-8
JsonDumps(title, value) ==
    <<123>> \o Quoted(KeyTitle) \o <<58, 32>> \o Quoted(Escape(title))
    \o <<44, 32>> \o Quoted(KeyValue) \o <<58, 32>> \o Quoted(Escape(value))
    \o <<125>>

ParseFail == [ok |-> FALSE]

\* s has the literal lit at position p
HasAt(s, p, lit) ==
    /\ p + Len(lit) - 1 <= Len(s)
    /\ \A i \in 1..Len(lit) : s[p + i - 1] = lit[i]

\* the bytes the character at position p of a JSON string takes: 1 for a
\* plain character, 2 for \" \\ \/, 6 for \uXXXX, 0 when it is no character
TokLen(s, p) ==
    IF s[p] = 92
    THEN IF p + 1 <= Len(s) /\ s[p + 1] \in {34, 92, 47} THEN 2
         ELSE IF p + 5 <= Len(s) /\ s[p + 1] = 117
                 /\ \A k \in 2..5 : HexValue(s[p + k]) >= 0 THEN 6
         ELSE 0
    ELSE IF s[p] < 32 \/ s[p] > 126 \/ s[p] = 34 THEN 0
    ELSE 1

\* the character that starts at position p
TokChar(s, p) ==
    IF s[p] # 92 THEN s[p]
    ELSE IF s[p + 1] # 117 THEN s[p + 1]
    ELSE HexValue(s[p + 2]) * 4096 + HexValue(s[p + 3]) * 256
         + HexValue(s[p + 4]) * 16 + HexValue(s[p + 5])

\* the position of the quote that closes the string whose first character
\* is at p; 0 when the string is not closed or holds an invalid character
RECURSIVE StringEnd(_, _)
StringEnd(s, p) ==
    IF p > Len(s) \/ TokLen(s, p) = 0
    THEN (IF p <= Len(s) /\ s[p] = 34 THEN p ELSE 0)
    ELSE StringEnd(s, p + TokLen(s, p))

\* the characters of the string that starts at p and is closed at q
RECURSIVE Unescape(_, _, _)
Unescape(s, p, q) ==
    IF p >= q THEN <<>>
    ELSE <<TokChar(s, p)>> \o Unescape(s, p + TokLen(s, p), q)

\* scan a JSON string whose opening quote precedes position p
ScanString(s, p) ==
    LET q == StringEnd(s, p)
    IN  IF q = 0 THEN ParseFail
        ELSE [ok |-> TRUE, str |-> Unescape(s, p, q), next |-> q + 1]

\* json.loads of a slot's text: the object json.dumps wrote, or a failure
JsonLoads(s) ==
    LET open1 == <<123>> \o Quoted(KeyTitle) \o <<58, 32, 34>>
        open2 == <<44, 32>> \o Quoted(KeyValue) \o <<58, 32, 34>>
    IN  IF ~HasAt(s, 1, open1) THEN ParseFail
        ELSE LET t == ScanString(s, Len(open1) + 1)
             IN  IF ~t.ok \/ ~HasAt(s, t.next, open2) THEN ParseFail
                 ELSE LET v == ScanString(s, t.next + Len(open2))
                      IN  IF ~v.ok \/ ~HasAt(s, v.next, <<125>>)
                             \/ v.next # Len(s)
                          THEN ParseFail
                          ELSE [ok |-> TRUE, title |-> t.str, value |-> v.str]

---------------------------------------------------------------------------
(* RepositoryBytearray *)

\* __get_address: (first_byte, last_byte) of the slot of entity_id
get_address(entity_id) ==
    LET first_byte == (entity_id - 1) * entry_length
    IN  <<first_byte, first_byte + entry_length>>

\* "for i in range(len(bytes)): db[first_byte + i] = bytes[i]": the bytes
\* stored before the loop ends or an index leaves the buffer
Store(d, first_byte, bytes) ==
    LET n == Len(bytes)
        done == IF ~ValidIndex(first_byte) THEN 0
                ELSE IF first_byte + n <= DbLen THEN n
                ELSE DbLen - first_byte
    IN  [db |-> [j \in 0..(DbLen - 1) |->
                    LET i1 == j - first_byte
                        i2 == j - DbLen - first_byte
                    IN  IF i1 >= 0 /\ i1 < done THEN bytes[i1 + 1]
                        ELSE IF i2 >= 0 /\ i2 < done THEN bytes[i2 + 1]
                        ELSE d[j]],
         complete |-> done = n]

\* __read_entity without the rstrip of the padding
read_entity_no_rstrip(d, entity_id) ==
    IF entity_id > db_length THEN Returned(EmptyDict)
    ELSE LET first_byte == get_address(entity_id)[1]
             last_byte == get_address(entity_id)[2]
         IN  IF ~ValidIndex(first_byte) THEN Raised("IndexError")
             ELSE IF d[Norm(first_byte)] = 0 THEN Returned(EmptyDict)
             ELSE LET sequence == PySlice(d, first_byte, last_byte)
                      result == JsonLoads(sequence)
                  IN  IF ~result.ok THEN Raised("JSONDecodeError")
                      ELSE Returned([id |-> entity_id, title |-> result.title,
                                     value |-> result.value])

\* __read_entity
read_entity(d, entity_id) ==
    IF entity_id > db_length THEN Returned(EmptyDict)
    ELSE LET first_byte == get_address(entity_id)[1]
             last_byte == get_address(entity_id)[2]
         IN  IF ~ValidIndex(first_byte) THEN Raised("IndexError")
             ELSE IF d[Norm(first_byte)] = 0 THEN Returned(EmptyDict)
             ELSE LET sequence == PySlice(d, first_byte, last_byte)
                      truncated == RStrip(sequence)
                      result == JsonLoads(truncated)
                  IN  IF ~result.ok THEN Raised("JSONDecodeError")
                      ELSE Returned([id |-> entity_id, title |-> result.title,
                                     value |-> result.value])

\* __write_entry without the test of the slot's first byte
write_entry_unchecked(d, entity, write_if_exists) ==
    LET to_db == JsonDumps(entity.title, entity.value)
        first_byte == get_address(entity.id)[1]
    IN  IF ~ValidIndex(first_byte) THEN [db |-> d, res |-> Raised("IndexError")]
        ELSE LET stored == Store(d, first_byte, to_db)
             IN  [db |-> stored.db,
                  res |-> IF stored.complete THEN Returned(0)
                          ELSE Raised("IndexError")]

\* __write_entry
write_entry(d, entity, write_if_exists) ==
    LET to_db == JsonDumps(entity.title, entity.value)
        first_byte == get_address(entity.id)[1]
    IN  IF ~ValidIndex(first_byte) THEN [db |-> d, res |-> Raised("IndexError")]
        ELSE IF d[Norm(first_byte)] = BoolAsInt(write_if_exists)
        THEN LET stored == Store(d, first_byte, to_db)
             IN  [db |-> stored.db,
                  res |-> IF stored.complete THEN Returned(0)
                          ELSE Raised("IndexError")]
        ELSE [db |-> d, res |-> Returned(-1)]

get(d, entity_id) == read_entity(d, entity_id)

\* the loop of index and list_paginated over range(start, stop)
Scan(d, start, stop) ==
    LET n == IF stop <= start THEN 0 ELSE stop - start
        responses == [i \in 1..n |-> read_entity(d, start + i - 1)]
        failed == {i \in 1..n : responses[i].exc # NoException}
        found == SelectSeq(responses, LAMBDA r : r.val # EmptyDict)
    IN  IF failed # {}
        THEN Raised(responses[CHOOSE i \in failed : \A j \in failed : i <= j].exc)
        ELSE Returned([i \in 1..Len(found) |-> found[i].val])

\* index: range(1, self.__db_length)
index(d) == Scan(d, 1, db_length)

\* list_paginated: range(offset, limit)
list_paginated(d, page) ==
    LET offset == (page - 1) * PAGE_LIMIT
        limit == offset + PAGE_LIMIT
    IN  Scan(d, offset, limit)

\* add that writes when the slot is occupied
add_if_exists(d, entity) == write_entry(d, entity, TRUE)

add(d, entity) == write_entry(d, entity, FALSE)

\* delete without the test of the slot's first byte
delete_unchecked(d, entity_id) ==
    LET first_byte == get_address(entity_id)[1]
    IN  IF ~ValidIndex(first_byte) THEN [db |-> d, res |-> Raised("IndexError")]
        ELSE LET stored == Store(d, first_byte, [i \in 1..entry_length |-> 0])
             IN  [db |-> stored.db,
                  res |-> IF stored.complete THEN Returned(0)
                          ELSE Raised("IndexError")]

\* delete that zero-fills the slot from its second byte on
delete_keep_sentinel(d, entity_id) ==
    LET first_byte == get_address(entity_id)[1]
    IN  IF ~ValidIndex(first_byte) THEN [db |-> d, res |-> Raised("IndexError")]
        ELSE IF d[Norm(first_byte)] # 0
        THEN [db |-> Store(d, first_byte + 1,
                           [i \in 1..(entry_length - 1) |-> 0]).db,
              res |-> Returned(0)]
        ELSE [db |-> d, res |-> Returned(-1)]

\* delete that clears the first byte of the slot only
delete_sentinel_only(d, entity_id) ==
    LET first_byte == get_address(entity_id)[1]
    IN  IF ~ValidIndex(first_byte) THEN [db |-> d, res |-> Raised("IndexError")]
        ELSE IF d[Norm(first_byte)] # 0
        THEN [db |-> Store(d, first_byte, <<0>>).db, res |-> Returned(0)]
        ELSE [db |-> d, res |-> Returned(-1)]

delete(d, entity_id) ==
    LET first_byte == get_address(entity_id)[1]
    IN  IF ~ValidIndex(first_byte) THEN [db |-> d, res |-> Raised("IndexError")]
        ELSE IF d[Norm(first_byte)] # 0
        THEN LET stored == Store(d, first_byte, [i \in 1..entry_length |-> 0])
             IN  [db |-> stored.db,
                  res |-> IF stored.complete THEN Returned(0)
                          ELSE Raised("IndexError")]
        ELSE [db |-> d, res |-> Returned(-1)]

update(d, entity) == write_entry(d, entity, TRUE)

---------------------------------------------------------------------------
(* The store as a state machine.  db is self.__db; last is the latest call *)
(* with its outcome; held is the set of ids whose add returned 0 with no   *)
(* delete of that id returning 0 since; tomb is <<id, length>> of the text  *)
(* removed by the call before when that was a successful delete, and an    *)
(* add records it as the slot it may be reusing.                           *)

\* amap.map is the map from id to record that the add and delete calls so
\* far describe, kept next to the store when amap.kept is set: a set of
\* records, one for an id at most; add and delete are gated by the
\* existence of the id.
NoMap == [kept |-> FALSE, map |-> {}]

MapHas(a, entity_id) == \E r \in a : r.id = entity_id

MapGet(a, entity_id) ==
    IF MapHas(a, entity_id) THEN Returned(CHOOSE r \in a : r.id = entity_id)
    ELSE Returned(EmptyDict)

MapAdd(a, entity) ==
    IF MapHas(a, entity.id) THEN [map |-> a, res |-> Returned(-1)]
    ELSE [map |-> a \cup {entity}, res |-> Returned(0)]

MapDelete(a, entity_id) ==
    IF MapHas(a, entity_id)
    THEN [map |-> {r \in a : r.id # entity_id}, res |-> Returned(0)]
    ELSE [map |-> a, res |-> Returned(-1)]

\* the bytes of the slot that starts at first_byte, without the padding
SlotText(d, first_byte) ==
    RStrip([i \in 1..entry_length |-> d[Norm(first_byte) + i - 1]])

Init ==
    /\ db = [j \in 0..(DbLen - 1) |-> 0]
    /\ last = [op |-> "init", arg |-> 0, res |-> Returned(0)]
    /\ held = {}
    /\ amap = NoMap
    /\ tasks = <<>>
    /\ tomb = <<>>
    /\ cache = <<>>
    /\ max_size = 0
    /\ touched = <<>>
    /\ latest = {}
    /\ pg_table = {}
    /\ sql_cache = {}
    /\ od = <<>>
    /\ lst = <<>>

Get(entity_id) ==
    /\ last' = [op |-> "get", arg |-> entity_id, res |-> get(db, entity_id)]
    /\ tomb' = <<>>
    /\ UNCHANGED <<db, held, amap, cache_vars, pg_vars, mem_vars, tasks>>

Index ==
    /\ last' = [op |-> "index", arg |-> 0, res |-> index(db)]
    /\ tomb' = <<>>
    /\ UNCHANGED <<db, held, amap, cache_vars, pg_vars, mem_vars, tasks>>

ListPaginated(page) ==
    /\ last' = [op |-> "list_paginated", arg |-> page, res |-> list_paginated(db, page)]
    /\ tomb' = <<>>
    /\ UNCHANGED <<db, held, amap, cache_vars, pg_vars, mem_vars, tasks>>

Add(entity) ==
    \E w \in {add(db, entity)} :
        /\ db' = w.db
        /\ last' = [op |-> "add", arg |-> entity, res |-> w.res, freed |-> tomb]
        /\ held' = IF w.res = Returned(0) THEN held \cup {entity.id} ELSE held
        /\ amap' = IF amap.kept
                   THEN [amap EXCEPT !.map = MapAdd(@, entity).map]
                   ELSE amap
        /\ tomb' = <<>>
        /\ UNCHANGED <<cache_vars, pg_vars, mem_vars, tasks>>

Delete(entity_id) ==
    \E w \in {delete(db, entity_id)} :
        /\ db' = w.db
        /\ last' = [op |-> "delete", arg |-> entity_id, res |-> w.res]
        /\ held' = IF w.res = Returned(0) THEN held \ {entity_id} ELSE held
        /\ amap' = IF amap.kept
                   THEN [amap EXCEPT !.map = MapDelete(@, entity_id).map]
                   ELSE amap
        /\ tomb' = IF w.res = Returned(0)
                   THEN <<entity_id, Len(SlotText(db, get_address(entity_id)[1]))>>
                   ELSE <<>>
        /\ UNCHANGED <<cache_vars, pg_vars, mem_vars, tasks>>

Update(entity) ==
    \E w \in {update(db, entity)} :
        /\ db' = w.db
        /\ last' = [op |-> "update", arg |-> entity, res |-> w.res]
        /\ tomb' = <<>>
        /\ UNCHANGED <<held, amap, cache_vars, pg_vars, mem_vars, tasks>>

\* every call the HTTP layer can make, ids and titles unchecked
Next ==
    \/ \E entity_id \in Ids : Get(entity_id)
    \/ Index
    \/ \E page \in Pages : ListPaginated(page)
    \/ \E entity \in Entities(Ids, Titles) : Add(entity)
    \/ \E entity_id \in Ids : Delete(entity_id)
    \/ \E entity \in Entities(Ids, Titles) : Update(entity)

Spec == Init /\ [][Next]_vars

\* the titles whose record fits one slot
FitTitles == {t \in Titles : \A v \in Values : Len(JsonDumps(t, v)) <= entry_length}

\* the calls with ids in 1..N and records that fit one slot
NextValid ==
    \/ \E entity_id \in ValidIds : Get(entity_id)
    \/ Index
    \/ \E page \in Pages : ListPaginated(page)
    \/ \E entity \in Entities(ValidIds, FitTitles) : Add(entity)
    \/ \E entity_id \in ValidIds : Delete(entity_id)
    \/ \E entity \in Entities(ValidIds, FitTitles) : Update(entity)

SpecValid == Init /\ [][NextValid]_vars

\* records are added and updated with ids in 1..N and texts that fit one
\* slot; get and delete are called with any id
NextProbe ==
    \/ \E entity_id \in Ids \cup ValidIds : Get(entity_id)
    \/ Index
    \/ \E page \in Pages : ListPaginated(page)
    \/ \E entity \in Entities(ValidIds, FitTitles) : Add(entity)
    \/ \E entity_id \in Ids \cup ValidIds : Delete(entity_id)
    \/ \E entity \in Entities(ValidIds, FitTitles) : Update(entity)

SpecProbe == Init /\ [][NextProbe]_vars

---------------------------------------------------------------------------
(* Properties of the slotted store *)

\* slot k of 1..N is occupied: its first byte is not zero
Occupied(d, k) == d[(k - 1) * entry_length] # 0

\* the bytes of slot k of 1..N
SlotBytes(d, k) == [i \in 1..entry_length |-> d[(k - 1) * entry_length + i - 1]]

\* the text of a record followed by zero bytes up to the end of the slot
Padded(bytes) ==
    [i \in 1..entry_length |-> IF i <= Len(bytes) THEN bytes[i] ELSE 0]

TextOf(entity) == JsonDumps(entity.title, entity.value)

Fits(entity) == Len(TextOf(entity)) <= entry_length

\* the records of the occupied slots 1..N in ascending id order
StoredRecords(d) ==
    LET all == [k \in 1..db_length |-> read_entity(d, k)]
        kept == SelectSeq(all, LAMBDA r : r.val # EmptyDict)
    IN  [i \in 1..Len(kept) |-> kept[i].val]

Range(seq) == {seq[i] : i \in 1..Len(seq)}

\* C1: once add(r) has returned Success, every later add with the same id
\* returns AlreadyExists (-1) until a delete of that id returns Success; no
\* other call makes the id addable again.  (held is the set of ids added
\* with Success and not deleted with Success since; the ids are in 1..N.)
C1_Uniqueness ==
    [][(last'.op = "add" /\ last'.arg.id \in held \cap (1..db_length))
         => last'.res = Returned(-1)]_vars

\* C2: update(r) for an id whose slot is occupied returns Success (0) and the
\* next get(r.id) returns exactly r; update returns NotFound (-1) only when
\* no record with r.id exists.
C2_UpdateReplaces ==
    [][(last'.op = "update" /\ last'.arg.id \in 1..db_length)
         => IF Occupied(db, last'.arg.id)
            THEN /\ last'.res = Returned(0)
                 /\ get(db', last'.arg.id) = Returned(last'.arg)
            ELSE last'.res = Returned(-1)]_vars

\* C3: round trip: an add(r) with r.id in 1..N and a text that fits one slot
\* that returns Success is followed by a get(r.id) that returns r in every
\* field, with the id taken from the slot position.
C3_RoundTrip ==
    [][(/\ last'.op = "add"
        /\ last'.res = Returned(0)
        /\ last'.arg.id \in 1..db_length
        /\ Fits(last'.arg))
         => get(db', last'.arg.id) = Returned(last'.arg)]_vars

\* a successful add of the title with a quote, a backslash and a non-ASCII
\* character that get returns unchanged
C3_Witness ==
    /\ last.op = "add"
    /\ last.res = Returned(0)
    /\ last.arg.id \in 1..db_length
    /\ last.arg.title = <<34, 92, 233>>
    /\ get(db, last.arg.id) = Returned(last.arg)

\* C4: delete(id) on an occupied slot returns Success (0) and the next
\* get(id) returns NotFound; delete(id) on an empty slot returns NotFound
\* (-1) and leaves the whole buffer unchanged.
C4_Delete ==
    [][(last'.op = "delete" /\ last'.arg \in 1..db_length)
         => IF Occupied(db, last'.arg)
            THEN /\ last'.res = Returned(0)
                 /\ get(db', last'.arg) = Returned(EmptyDict)
            ELSE /\ last'.res = Returned(-1)
                 /\ db' = db]_vars

\* a delete that removed a record while another slot stays occupied
C4_Witness ==
    /\ last.op = "delete"
    /\ last.res = Returned(0)
    /\ last.arg \in 1..db_length
    /\ get(db, last.arg) = Returned(EmptyDict)
    /\ \E k \in 1..db_length : Occupied(db, k)

\* C5: add(r) on an id whose slot is occupied returns AlreadyExists (-1) and
\* changes no byte of the buffer, so get(r.id) still returns what it
\* returned before.
C5_AddOccupied ==
    [][(/\ last'.op = "add"
        /\ last'.arg.id \in 1..db_length
        /\ Occupied(db, last'.arg.id))
         => /\ last'.res = Returned(-1)
            /\ db' = db
            /\ get(db', last'.arg.id) = get(db, last'.arg.id)]_vars

\* a rejected add of a record that differs from the stored one
C5_Witness ==
    /\ last.op = "add"
    /\ last.res = Returned(-1)
    /\ last.arg.id \in 1..db_length
    /\ get(db, last.arg.id).exc = NoException
    /\ get(db, last.arg.id).val # EmptyDict
    /\ get(db, last.arg.id).val # last.arg

\* C6: tombstone cleanliness: when delete(k) has removed a text and the next
\* call add(r2) at k stores a shorter text, get(k) returns exactly r2 and
\* slot k holds r2's text followed by zero bytes only.
C6_Tombstone ==
    [][(/\ last'.op = "add"
        /\ last'.res = Returned(0)
        /\ last'.arg.id \in 1..db_length
        /\ last'.freed # <<>>
        /\ last'.freed[1] = last'.arg.id
        /\ Len(TextOf(last'.arg)) < last'.freed[2])
         => /\ get(db', last'.arg.id) = Returned(last'.arg)
            /\ SlotBytes(db', last'.arg.id) = Padded(TextOf(last'.arg))]_vars

\* an add of a shorter text into the slot the call before has emptied
C6_Witness ==
    /\ last.op = "add"
    /\ last.res = Returned(0)
    /\ last.arg.id \in 1..db_length
    /\ last.freed # <<>>
    /\ last.freed[1] = last.arg.id
    /\ Len(TextOf(last.arg)) < last.freed[2]
    /\ get(db, last.arg.id) = Returned(last.arg)

\* C7: index() returns exactly the records of every occupied slot with id in
\* 1..N (id N included), in ascending id order, and an empty sequence when
\* no slot is occupied.
C7_IndexAll ==
    last.op = "index" => last.res = Returned(StoredRecords(db))

\* C8: pagination completeness: with count stored records, the pages
\* 1..ceil(count/10) of list_paginated together hold exactly the records of
\* index(), and no record is on two pages.
C8_Pagination ==
    LET count == Cardinality({k \in 1..db_length : Occupied(db, k)})
        pages == 1..((count + PAGE_LIMIT - 1) \div PAGE_LIMIT)
    IN  /\ index(db).exc = NoException
        /\ \A p \in pages : list_paginated(db, p).exc = NoException
        /\ UNION {Range(list_paginated(db, p).val) : p \in pages}
               = Range(index(db).val)
        /\ \A p, q \in pages :
               p # q => Range(list_paginated(db, p).val)
                            \cap Range(list_paginated(db, q).val) = {}

\* C9: list_paginated(page) never raises and never returns a record whose id
\* is outside 1..N; for page < 1 or a page wholly beyond N it returns an
\* empty sequence.
C9_PagesSafe ==
    last.op = "list_paginated"
        => /\ last.res.exc = NoException
           /\ \A r \in Range(last.res.val) : r.id \in 1..db_length
           /\ (last.arg < 1 \/ (last.arg - 1) * PAGE_LIMIT >= db_length)
                  => last.res.val = <<>>

\* C10: for every id <= 0 or id > N, get(id) returns NotFound ({}) without
\* raising.
C10_GetOutOfRange ==
    (last.op = "get" /\ (last.arg <= 0 \/ last.arg > db_length))
        => last.res = Returned(EmptyDict)

\* C11: add(r) with r.id outside 1..N (id > N or id <= 0) returns a failure
\* value, never raises, and leaves every byte of the buffer unchanged.
C11_AddOutOfRange ==
    [][(last'.op = "add" /\ last'.arg.id \notin 1..db_length)
         => /\ last'.res = Returned(-1)
            /\ db' = db]_vars

\* C12: delete(id) and update(r) with an id outside 1..N return NotFound
\* (-1) without raising and leave every slot unchanged; delete(0) never
\* removes the record stored at id N.
C12_DeleteUpdateOutOfRange ==
    [][(\/ last'.op = "delete" /\ last'.arg \notin 1..db_length
        \/ last'.op = "update" /\ last'.arg.id \notin 1..db_length)
         => /\ last'.res = Returned(-1)
            /\ db' = db]_vars

---------------------------------------------------------------------------
(* CacheLRU (cache_lru.py).  The OrderedDict self.__cache is the sequence   *)
(* of its entries [key, value] from the head (least recently used) to the *)
(* bottom (most recently used).                                           *)

\* the keys and the values (dicts of the properties of an entity) of the calls
CacheKeys == {1, 2, 3}
CacheValues == [title : {<<65>>, <<66>>}]
MaxSizes == {0, 1, 2, 3}

\* Python's None
None == "None"

\* OrderedDict: key in d, d[key], d[key] = value, d.move_to_end(key),
\* d.popitem(last=False), d.pop(key); the last three raise KeyError when
\* the key is absent or the dict is empty
CKeys(c) == {c[i].key : i \in 1..Len(c)}

Contains(c, key) == key \in CKeys(c)

GetItem(c, key) == c[CHOOSE i \in 1..Len(c) : c[i].key = key].value

SetItem(c, key, value) ==
    IF Contains(c, key)
    THEN [i \in 1..Len(c) |-> IF c[i].key = key
                              THEN [key |-> key, value |-> value] ELSE c[i]]
    ELSE Append(c, [key |-> key, value |-> value])

MoveToEnd(c, key) ==
    IF Contains(c, key)
    THEN [cache |-> Append(SelectSeq(c, LAMBDA e : e.key # key),
                           [key |-> key, value |-> GetItem(c, key)]),
          exc |-> NoException]
    ELSE [cache |-> c, exc |-> "KeyError"]

PopItemFirst(c) ==
    IF Len(c) > 0 THEN [cache |-> Tail(c), exc |-> NoException]
    ELSE [cache |-> c, exc |-> "KeyError"]

Pop(c, key) ==
    IF Contains(c, key)
    THEN [cache |-> SelectSeq(c, LAMBDA e : e.key # key), exc |-> NoException]
    ELSE [cache |-> c, exc |-> "KeyError"]

\* put that never evicts
cache_put_no_evict(c, m, key, value) ==
    [cache |-> MoveToEnd(SetItem(c, key, value), key).cache,
     res |-> Returned(None)]

\* put that evicts from the bottom of the cache
cache_put_pop_last(c, m, key, value) ==
    LET moved == MoveToEnd(SetItem(c, key, value), key).cache
    IN  [cache |-> IF Len(moved) > m THEN SubSeq(moved, 1, Len(moved) - 1)
                   ELSE moved,
         res |-> Returned(None)]

\* put without move_to_end
cache_put_no_move(c, m, key, value) ==
    LET set == SetItem(c, key, value)
    IN  [cache |-> IF Len(set) > m THEN Tail(set) ELSE set,
         res |-> Returned(None)]

cache_put(c, m, key, value) ==
    LET moved == MoveToEnd(SetItem(c, key, value), key).cache
    IN  IF Len(moved) > m
        THEN LET popped == PopItemFirst(moved)
             IN  [cache |-> popped.cache,
                  res |-> IF popped.exc = NoException THEN Returned(None)
                          ELSE Raised(popped.exc)]
        ELSE [cache |-> moved, res |-> Returned(None)]

\* get that calls move_to_end before it tests the key
cache_get_move_first(c, key) ==
    LET moved == MoveToEnd(c, key)
    IN  IF moved.exc # NoException THEN [cache |-> c, res |-> Raised(moved.exc)]
        ELSE [cache |-> moved.cache, res |-> Returned(GetItem(c, key))]

\* get without move_to_end
cache_get_no_move(c, key) ==
    IF ~Contains(c, key) THEN [cache |-> c, res |-> Returned(-1)]
    ELSE [cache |-> c, res |-> Returned(GetItem(c, key))]

cache_get(c, key) ==
    IF ~Contains(c, key) THEN [cache |-> c, res |-> Returned(-1)]
    ELSE [cache |-> MoveToEnd(c, key).cache, res |-> Returned(GetItem(c, key))]

\* clear that removes the head of the cache only
cache_clear_head(c) == [cache |-> PopItemFirst(c).cache, res |-> Returned(None)]

cache_clear(c) == [cache |-> <<>>, res |-> Returned(None)]

\* delete without the except clause
cache_delete_no_except(c, key) ==
    LET popped == Pop(c, key)
    IN  [cache |-> popped.cache,
         res |-> IF popped.exc = NoException THEN Returned(None)
                 ELSE Raised(popped.exc)]

cache_delete(c, key) == [cache |-> Pop(c, key).cache, res |-> Returned(None)]

\* index that lists the entries from the bottom to the head
cache_index_bottom_first(c) ==
    Returned([i \in 1..Len(c) |-> c[Len(c) + 1 - i]])

cache_index(c) == Returned(c)

(* The cache as a state machine.  cache is self.__cache and max_size is     *)
(* self.__max_size; last is the latest call with its outcome and the cache *)
(* it was made on; touched lists the keys in the order of their latest     *)
(* touch (a put, or a get that hit), oldest first; latest is the set of    *)
(* <<key, value>> of the latest put of every key.                          *)

Touch(t, key) == Append(SelectSeq(t, LAMBDA k : k # key), key)

CacheInit ==
    /\ db = <<>>
    /\ held = {}
    /\ amap = NoMap
    /\ tasks = <<>>
    /\ tomb = <<>>
    /\ last = [op |-> "init", arg |-> 0, res |-> Returned(None), before |-> <<>>]
    /\ cache = <<>>
    /\ max_size \in MaxSizes
    /\ touched = <<>>
    /\ latest = {}
    /\ pg_table = {}
    /\ sql_cache = {}
    /\ od = <<>>
    /\ lst = <<>>

CachePut(key, value) ==
    \E w \in {cache_put(cache, max_size, key, value)} :
        /\ cache' = w.cache
        /\ last' = [op |-> "CacheLRU.put", arg |-> <<key, value>>, res |-> w.res,
                    before |-> cache]
        /\ touched' = Touch(touched, key)
        /\ latest' = {p \in latest : p[1] # key} \cup {<<key, value>>}
        /\ UNCHANGED <<max_size, store_vars, pg_vars, mem_vars, tasks>>

CacheGet(key) ==
    \E w \in {cache_get(cache, key)} :
        /\ cache' = w.cache
        /\ last' = [op |-> "CacheLRU.get", arg |-> key, res |-> w.res,
                    before |-> cache]
        /\ touched' = IF Contains(cache, key) THEN Touch(touched, key) ELSE touched
        /\ UNCHANGED <<max_size, latest, store_vars, pg_vars, mem_vars, tasks>>

CacheClear ==
    \E w \in {cache_clear(cache)} :
        /\ cache' = w.cache
        /\ last' = [op |-> "CacheLRU.clear", arg |-> 0, res |-> w.res,
                    before |-> cache]
        /\ UNCHANGED <<max_size, touched, latest, store_vars, pg_vars, mem_vars, tasks>>

CacheDelete(key) ==
    \E w \in {cache_delete(cache, key)} :
        /\ cache' = w.cache
        /\ last' = [op |-> "CacheLRU.delete", arg |-> key, res |-> w.res,
                    before |-> cache]
        /\ UNCHANGED <<max_size, touched, latest, store_vars, pg_vars, mem_vars, tasks>>

CacheIndex ==
    /\ last' = [op |-> "CacheLRU.index", arg |-> 0, res |-> cache_index(cache),
                before |-> cache]
    /\ UNCHANGED <<cache, max_size, touched, latest, store_vars, pg_vars, mem_vars, tasks>>

NextCache ==
    \/ \E key \in CacheKeys, value \in CacheValues : CachePut(key, value)
    \/ \E key \in CacheKeys : CacheGet(key)
    \/ CacheClear
    \/ \E key \in CacheKeys : CacheDelete(key)
    \/ CacheIndex

SpecCache == CacheInit /\ [][NextCache]_vars

---------------------------------------------------------------------------
(* Properties of the LRU cache *)

\* the entries of c without the one of key, in their order
Without(c, key) == SelectSeq(c, LAMBDA e : e.key # key)

\* the keys of c from the head to the bottom
KeySeq(c) == [i \in 1..Len(c) |-> c[i].key]

\* the value of the latest put of key
LatestOf(key) == (CHOOSE p \in latest : p[1] = key)[2]

\* C13: after any sequence of put, get, delete and clear calls the cache
\* holds at most maxsize entries, for every maxsize >= 0 (with maxsize 0 it
\* is empty after every call).
C13_AtMostMaxSize == Len(cache) <= max_size

\* a put of a new key into a full cache
C13_Witness ==
    /\ last.op = "CacheLRU.put"
    /\ max_size > 0
    /\ Len(last.before) = max_size
    /\ last.arg[1] \notin CKeys(last.before)
    /\ Len(cache) = max_size

\* C14: eviction order: when the put of a new key makes the size exceed
\* maxsize, exactly one entry is removed, the one whose latest touch (put,
\* or get that hit) is the oldest; the other entries keep their values.
C14_EvictionOrder ==
    (/\ last.op = "CacheLRU.put"
     /\ last.arg[1] \notin CKeys(last.before)
     /\ Len(last.before) + 1 > max_size)
        => LET key == last.arg[1]
               all == CKeys(last.before) \cup {key}
               evicted == Head(SelectSeq(touched, LAMBDA k : k \in all))
           IN  /\ Len(cache) = Len(last.before)
               /\ CKeys(cache) = all \ {evicted}
               /\ \A k \in CKeys(cache) :
                      GetItem(cache, k) = IF k = key THEN last.arg[2]
                                          ELSE GetItem(last.before, k)

\* maxsize 2: key 1 was touched after key 2, and put(3) leaves keys 1 and 3
C14_Witness ==
    /\ last.op = "CacheLRU.put"
    /\ max_size = 2
    /\ last.arg[1] = 3
    /\ KeySeq(last.before) = <<2, 1>>
    /\ KeySeq(cache) = <<1, 3>>

\* C15: get(key) for a key not in the cache returns -1 (Miss) and leaves
\* the cached entries and their order unchanged.
C15_GetMiss ==
    (last.op = "CacheLRU.get" /\ last.arg \notin CKeys(last.before))
        => /\ last.res = Returned(-1)
           /\ cache = last.before

\* a miss on a cache that holds two other keys
C15_Witness ==
    /\ last.op = "CacheLRU.get"
    /\ last.arg \notin CKeys(last.before)
    /\ Len(last.before) >= 2
    /\ cache = last.before

\* C16: get(key) for a cached key returns the value of the latest
\* put(key, .), moves key to the most-recently-used end and changes neither
\* the cached keys, their values, nor the order of the other keys.
C16_GetHit ==
    (last.op = "CacheLRU.get" /\ last.arg \in CKeys(last.before))
        => /\ last.res = Returned(LatestOf(last.arg))
           /\ cache = Append(Without(last.before, last.arg),
                             [key |-> last.arg,
                              value |-> GetItem(last.before, last.arg)])

\* a hit on the key at the head of a cache of three keys
C16_Witness ==
    /\ last.op = "CacheLRU.get"
    /\ Len(last.before) = 3
    /\ last.before[1].key = last.arg
    /\ cache[3].key = last.arg
    /\ last.res = Returned(LatestOf(last.arg))

\* C17: put(key, value) for a key already cached replaces its value, makes
\* it most-recently-used, keeps the size and evicts nothing.
C17_PutExisting ==
    (last.op = "CacheLRU.put" /\ last.arg[1] \in CKeys(last.before))
        => /\ Len(cache) = Len(last.before)
           /\ cache = Append(Without(last.before, last.arg[1]),
                             [key |-> last.arg[1], value |-> last.arg[2]])

\* a put of another value for the key at the head of a full cache
C17_Witness ==
    /\ last.op = "CacheLRU.put"
    /\ Len(last.before) = max_size
    /\ max_size >= 2
    /\ last.before[1].key = last.arg[1]
    /\ last.before[1].value # last.arg[2]
    /\ cache[Len(cache)] = [key |-> last.arg[1], value |-> last.arg[2]]

\* C18: delete(key) removes the entry when present and does nothing and
\* raises nothing when absent; all other entries and their order are
\* unchanged.
C18_Delete ==
    last.op = "CacheLRU.delete"
        => /\ last.res = Returned(None)
           /\ last.arg \notin CKeys(cache)
           /\ cache = IF last.arg \in CKeys(last.before)
                      THEN Without(last.before, last.arg)
                      ELSE last.before

\* a delete of a key that is not among the two cached ones
C18_Witness ==
    /\ last.op = "CacheLRU.delete"
    /\ last.arg \notin CKeys(last.before)
    /\ Len(last.before) >= 2
    /\ last.res = Returned(None)
    /\ cache = last.before

\* C19: after clear() the cache has no entries, every get returns Miss and
\* a put gives what it gives on a freshly constructed cache with the same
\* maxsize.
C19_Clear ==
    last.op = "CacheLRU.clear"
        => /\ cache = <<>>
           /\ \A key \in CacheKeys : cache_get(cache, key).res = Returned(-1)
           /\ \A key \in CacheKeys, value \in CacheValues :
                  cache_put(cache, max_size, key, value)
                      = cache_put(<<>>, max_size, key, value)

\* a clear of a cache that held two entries
C19_Witness ==
    /\ last.op = "CacheLRU.clear"
    /\ Len(last.before) >= 2
    /\ cache = <<>>

\* C20: index() returns all cached entries in recency order, the least
\* recently touched first and the most recently touched last, each with
\* the value of its latest put.
C20_Index ==
    last.op = "CacheLRU.index"
        => /\ last.res.exc = NoException
           /\ last.res.val = cache
           /\ KeySeq(last.res.val)
                  = SelectSeq(touched, LAMBDA k : k \in CKeys(cache))
           /\ \A i \in 1..Len(last.res.val) :
                  <<last.res.val[i].key, last.res.val[i].value>> \in latest

\* an index of three entries whose recency order is not the order of the keys
C20_Witness ==
    /\ last.op = "CacheLRU.index"
    /\ Len(last.res.val) = 3
    /\ last.res.val[1].key > last.res.val[2].key
    /\ KeySeq(last.res.val) = SelectSeq(touched, LAMBDA k : k \in CKeys(cache))

---------------------------------------------------------------------------
(* RepositoryAsyncpg (repository_asyncpg.py): the table sample_table of    *)
(* the database behind a CacheLRU of CACHE_SIZE entries.  pg_table is the  *)
(* set of the rows of the table (id is its primary key).  The database is  *)
(* an external collaborator: a query is answered ("ok") or it fails        *)
(* ("error") and __make_query, which has no except clause, raises.         *)

CACHE_SIZE == 5

PgIds == {1, 2}
PgTitles == {<<65>>, <<66>>}
DbOutcomes == {"ok", "error"}
DbError == "DatabaseError"

\* a table holds at most one row per id
UniqueIds(t) == \A r1, r2 \in t : r1.id = r2.id => r1 = r2
PgTables == {t \in SUBSET Entities(PgIds, PgTitles) : UniqueIds(t)}

\* SELECT * FROM sample_table WHERE id = %(id)s
SelectById(t, entity_id) ==
    IF \E r \in t : r.id = entity_id
    THEN <<CHOOSE r \in t : r.id = entity_id>>
    ELSE <<>>

\* INSERT INTO sample_table ...: a second row with the id is refused
InsertRow(t, entity) ==
    IF \E r \in t : r.id = entity.id THEN [table |-> t, exc |-> DbError]
    ELSE [table |-> t \cup {entity}, exc |-> NoException]

\* DELETE FROM sample_table WHERE id = %(id)s
DeleteRow(t, entity_id) == {r \in t : r.id # entity_id}

\* UPDATE sample_table SET ... WHERE id = %(id)s
UpdateRow(t, entity) ==
    {IF r.id = entity.id THEN entity ELSE r : r \in t}

\* self.get(...) without await: a coroutine object, and no step of get runs
Unawaited == [coroutine |-> "get"]

\* get that asks the database first and never reads the cache
asyncpg_get_no_cache(c, m, t, entity_id, outcome) ==
    IF outcome = "error"
    THEN [cache |-> c, res |-> Raised(DbError), queries |-> 1]
    ELSE LET results == SelectById(t, entity_id)
         IN  IF Len(results) = 0
             THEN [cache |-> c, res |-> Returned(EmptyDict), queries |-> 1]
             ELSE [cache |-> cache_put(c, m, entity_id, results[1]).cache,
                   res |-> Returned(results[1]), queries |-> 1]

\* self.__cache.get returns -1 exactly when the key is not cached (the
\* cached values are rows); queries counts the calls of __make_query
asyncpg_get(c, m, t, entity_id, outcome) ==
    IF ~Contains(c, entity_id)
    THEN IF outcome = "error"
         THEN [cache |-> c, res |-> Raised(DbError), queries |-> 1]
         ELSE LET results == SelectById(t, entity_id)
              IN  IF Len(results) = 0
                  THEN [cache |-> c, res |-> Returned(EmptyDict), queries |-> 1]
                  ELSE [cache |-> cache_put(c, m, entity_id, results[1]).cache,
                        res |-> Returned(results[1]), queries |-> 1]
    ELSE LET hit == cache_get(c, entity_id)
         IN  [cache |-> hit.cache, res |-> hit.res, queries |-> 0]

asyncpg_add(c, m, t, entity, outcome) ==
    IF Unawaited = EmptyDict
    THEN IF outcome = "error"
         THEN [cache |-> c, table |-> t, res |-> Raised(DbError), queries |-> 1]
         ELSE LET inserted == InsertRow(t, entity)
              IN  IF inserted.exc # NoException
                  THEN [cache |-> c, table |-> t, res |-> Raised(inserted.exc),
                        queries |-> 1]
                  ELSE [cache |-> cache_put(c, m, entity.id, entity).cache,
                        table |-> inserted.table, res |-> Returned(0),
                        queries |-> 1]
    ELSE [cache |-> c, table |-> t, res |-> Returned(-1), queries |-> 0]

\* delete that leaves the cache as it is
asyncpg_delete_keep_cache(c, t, entity_id, outcome) ==
    IF outcome = "error"
    THEN [cache |-> c, table |-> t, res |-> Raised(DbError), queries |-> 1]
    ELSE [cache |-> c, table |-> DeleteRow(t, entity_id),
          res |-> Returned(0), queries |-> 1]

asyncpg_delete(c, t, entity_id, outcome) ==
    IF Unawaited # EmptyDict
    THEN IF outcome = "error"
         THEN [cache |-> c, table |-> t, res |-> Raised(DbError), queries |-> 1]
         ELSE [cache |-> cache_delete(c, entity_id).cache,
               table |-> DeleteRow(t, entity_id),
               res |-> Returned(0), queries |-> 1]
    ELSE [cache |-> c, table |-> t, res |-> Returned(-1), queries |-> 0]

\* update that leaves the cache as it is
asyncpg_update_keep_cache(c, t, entity, outcome) ==
    IF outcome = "error"
    THEN [cache |-> c, table |-> t, res |-> Raised(DbError), queries |-> 1]
    ELSE [cache |-> c, table |-> UpdateRow(t, entity),
          res |-> Returned(0), queries |-> 1]

asyncpg_update(c, t, entity, outcome) ==
    IF Unawaited # EmptyDict
    THEN IF outcome = "error"
         THEN [cache |-> c, table |-> t, res |-> Raised(DbError), queries |-> 1]
         ELSE [cache |-> cache_delete(c, entity.id).cache,
               table |-> UpdateRow(t, entity),
               res |-> Returned(0), queries |-> 1]
    ELSE [cache |-> c, table |-> t, res |-> Returned(-1), queries |-> 0]

(* The cached backend as a state machine, every call run to completion.     *)
(* __init__ calls the coroutine __init_db without await, so the table is   *)
(* never dropped or created there: it holds what the database held         *)
(* before.  last keeps the outcome of the call's query (db), the number of *)
(* its queries, and the cache and the table the call was made on.          *)

PgInit ==
    /\ db = <<>>
    /\ held = {}
    /\ amap = NoMap
    /\ tasks = <<>>
    /\ tomb = <<>>
    /\ last = [op |-> "init", arg |-> 0, res |-> Returned(None), db |-> "ok",
               queries |-> 0, before |-> <<>>, table |-> {}]
    /\ cache = <<>>
    /\ max_size = CACHE_SIZE
    /\ touched = <<>>
    /\ latest = {}
    /\ pg_table \in PgTables
    /\ sql_cache = {}
    /\ od = <<>>
    /\ lst = <<>>

PgCall(name, arg, outcome, w) ==
    /\ cache' = w.cache
    /\ last' = [op |-> name, arg |-> arg, res |-> w.res, db |-> outcome,
                queries |-> w.queries, before |-> cache, table |-> pg_table]
    /\ UNCHANGED <<max_size, touched, latest, sql_cache, store_vars, mem_vars, tasks>>

AsyncpgGet(entity_id, outcome) ==
    \E w \in {asyncpg_get(cache, max_size, pg_table, entity_id, outcome)} :
        /\ PgCall("RepositoryAsyncpg.get", entity_id, outcome, w)
        /\ UNCHANGED pg_table

AsyncpgAdd(entity, outcome) ==
    \E w \in {asyncpg_add(cache, max_size, pg_table, entity, outcome)} :
        /\ PgCall("RepositoryAsyncpg.add", entity, outcome, w)
        /\ pg_table' = w.table

AsyncpgDelete(entity_id, outcome) ==
    \E w \in {asyncpg_delete(cache, pg_table, entity_id, outcome)} :
        /\ PgCall("RepositoryAsyncpg.delete", entity_id, outcome, w)
        /\ pg_table' = w.table

AsyncpgUpdate(entity, outcome) ==
    \E w \in {asyncpg_update(cache, pg_table, entity, outcome)} :
        /\ PgCall("RepositoryAsyncpg.update", entity, outcome, w)
        /\ pg_table' = w.table

NextAsyncpg ==
    \/ \E entity_id \in PgIds, outcome \in DbOutcomes :
           AsyncpgGet(entity_id, outcome)
    \/ \E entity \in Entities(PgIds, PgTitles), outcome \in DbOutcomes :
           AsyncpgAdd(entity, outcome)
    \/ \E entity_id \in PgIds, outcome \in DbOutcomes :
           AsyncpgDelete(entity_id, outcome)
    \/ \E entity \in Entities(PgIds, PgTitles), outcome \in DbOutcomes :
           AsyncpgUpdate(entity, outcome)

SpecAsyncpg == PgInit /\ [][NextAsyncpg]_vars

---------------------------------------------------------------------------
(* Properties of the cached database backend *)

HasRow(t, entity_id) == \E r \in t : r.id = entity_id

RowOf(t, entity_id) == CHOOSE r \in t : r.id = entity_id

\* the id a delete or an update was called with
WrittenId(call) ==
    IF call.op = "RepositoryAsyncpg.delete" THEN call.arg ELSE call.arg.id

IsWrite(call) ==
    call.op \in {"RepositoryAsyncpg.delete", "RepositoryAsyncpg.update"}

C22_InvalidateOnWrite ==
    [][/\ (IsWrite(last') /\ last'.res = Returned(0))
            => ~Contains(cache', WrittenId(last'))
       /\ (/\ IsWrite(last)
           /\ last.res = Returned(0)
           /\ last'.op = "RepositoryAsyncpg.get"
           /\ last'.arg = WrittenId(last))
            => last'.queries = 1]_vars

\* an update that returned Success for a key cached with another record
C22_Witness ==
    /\ last.op = "RepositoryAsyncpg.update"
    /\ last.res = Returned(0)
    /\ Contains(last.before, last.arg.id)
    /\ GetItem(last.before, last.arg.id) # last.arg
    /\ ~Contains(cache, last.arg.id)

\* C23: an add(r) of a record the database does not hold returns Success
\* and invalidates rather than populates the cache: right after it the
\* cache holds no entry for r.id.
C23_AddInvalidates ==
    (/\ last.op = "RepositoryAsyncpg.add"
     /\ last.db = "ok"
     /\ ~HasRow(last.table, last.arg.id))
        => /\ last.res = Returned(0)
           /\ ~Contains(cache, last.arg.id)

\* C24: existence gate, with the database answering: add(r) returns 0 and
\* inserts when no record with r.id exists, and returns -1 without a change
\* when one exists; delete(id) and update(r) return -1 and issue no
\* mutation when no such record exists, and 0 otherwise.
C24_ExistenceGated ==
    LET pre == last.table
    IN  /\ (last.op = "RepositoryAsyncpg.add" /\ last.db = "ok")
             => IF HasRow(pre, last.arg.id)
                THEN last.res = Returned(-1) /\ pg_table = pre
                ELSE last.res = Returned(0) /\ pg_table = pre \cup {last.arg}
        /\ (IsWrite(last) /\ last.db = "ok")
             => IF HasRow(pre, WrittenId(last))
                THEN last.res = Returned(0)
                ELSE /\ last.res = Returned(-1)
                     /\ last.queries = 0
                     /\ pg_table = pre

\* C25: when the query of get(k) fails, get returns {} and raises nothing,
\* and the cache gains no entry for k.
C25_GetBackendFailure ==
    (/\ last.op = "RepositoryAsyncpg.get"
     /\ last.queries = 1
     /\ last.db = "error")
        => /\ last.res = Returned(EmptyDict)
           /\ cache = last.before

---------------------------------------------------------------------------
(* RepositoryPostgres (repository_sql.py): the same table behind a plain   *)
(* dict.  sql_cache is self._cache, the set of <<entity_id, results>> for  *)
(* its keys ("get", entity_id).  Here __make_query catches every exception *)
(* and returns [] for a query that failed.                                 *)

InSqlCache(sc, entity_id) == \E p \in sc : p[1] = entity_id

SqlCached(sc, entity_id) == (CHOOSE p \in sc : p[1] = entity_id)[2]

\* results[0], or {} on IndexError
FirstOrEmpty(results) ==
    IF Len(results) > 0 THEN results[1] ELSE EmptyDict

\* db is the outcome of the query of the call, "none" when it made no query
sql_get(sc, t, entity_id, outcome) ==
    IF InSqlCache(sc, entity_id)
    THEN [cache |-> sc, db |-> "none",
          res |-> Returned(FirstOrEmpty(SqlCached(sc, entity_id)))]
    ELSE LET results == IF outcome = "ok" THEN SelectById(t, entity_id)
                        ELSE <<>>
         IN  [cache |-> sc \cup {<<entity_id, results>>}, db |-> outcome,
              res |-> Returned(FirstOrEmpty(results))]

sql_add(sc, t, entity, outcome, outcome2) ==
    LET got == sql_get(sc, t, entity.id, outcome)
    IN  IF got.res.val = EmptyDict
        THEN LET inserted == InsertRow(t, entity)
             IN  [cache |-> {}, db |-> got.db, res |-> Returned(0),
                  table |-> IF outcome2 = "ok" /\ inserted.exc = NoException
                            THEN inserted.table ELSE t]
        ELSE [cache |-> got.cache, db |-> got.db, res |-> Returned(-1),
              table |-> t]

sql_delete(sc, t, entity_id, outcome, outcome2) ==
    LET got == sql_get(sc, t, entity_id, outcome)
    IN  IF got.res.val # EmptyDict
        THEN [cache |-> {}, db |-> got.db, res |-> Returned(0),
              table |-> IF outcome2 = "ok" THEN DeleteRow(t, entity_id) ELSE t]
        ELSE [cache |-> got.cache, db |-> got.db, res |-> Returned(-1),
              table |-> t]

\* update without the call of __clear_cache
sql_update_keep_cache(sc, t, entity, outcome, outcome2) ==
    LET got == sql_get(sc, t, entity.id, outcome)
    IN  IF got.res.val # EmptyDict
        THEN [cache |-> got.cache, db |-> got.db, res |-> Returned(0),
              table |-> IF outcome2 = "ok" THEN UpdateRow(t, entity) ELSE t]
        ELSE [cache |-> got.cache, db |-> got.db, res |-> Returned(-1),
              table |-> t]

sql_update(sc, t, entity, outcome, outcome2) ==
    LET got == sql_get(sc, t, entity.id, outcome)
    IN  IF got.res.val # EmptyDict
        THEN [cache |-> {}, db |-> got.db, res |-> Returned(0),
              table |-> IF outcome2 = "ok" THEN UpdateRow(t, entity) ELSE t]
        ELSE [cache |-> got.cache, db |-> got.db, res |-> Returned(-1),
              table |-> t]

(* The dict-cached backend as a state machine.  __init_db drops and         *)
(* creates the table through __make_query, which swallows a failure, so    *)
(* the table starts empty or, when the database did not answer, with what  *)
(* it held before.                                                         *)

SqlInit ==
    /\ db = <<>>
    /\ held = {}
    /\ amap = NoMap
    /\ tasks = <<>>
    /\ tomb = <<>>
    /\ last = [op |-> "init", arg |-> 0, res |-> Returned(None), db |-> "none",
               before |-> {}, table |-> {}]
    /\ cache = <<>>
    /\ max_size = 0
    /\ touched = <<>>
    /\ latest = {}
    /\ pg_table \in PgTables
    /\ sql_cache = {}
    /\ od = <<>>
    /\ lst = <<>>

SqlCall(name, arg, w) ==
    /\ sql_cache' = w.cache
    /\ last' = [op |-> name, arg |-> arg, res |-> w.res, db |-> w.db,
                before |-> sql_cache, table |-> pg_table]
    /\ UNCHANGED <<cache_vars, store_vars, mem_vars, tasks>>

SqlGet(entity_id, outcome) ==
    \E w \in {sql_get(sql_cache, pg_table, entity_id, outcome)} :
        /\ SqlCall("RepositoryPostgres.get", entity_id, w)
        /\ UNCHANGED pg_table

SqlAdd(entity, outcome, outcome2) ==
    \E w \in {sql_add(sql_cache, pg_table, entity, outcome, outcome2)} :
        /\ SqlCall("RepositoryPostgres.add", entity, w)
        /\ pg_table' = w.table

SqlDelete(entity_id, outcome, outcome2) ==
    \E w \in {sql_delete(sql_cache, pg_table, entity_id, outcome, outcome2)} :
        /\ SqlCall("RepositoryPostgres.delete", entity_id, w)
        /\ pg_table' = w.table

SqlUpdate(entity, outcome, outcome2) ==
    \E w \in {sql_update(sql_cache, pg_table, entity, outcome, outcome2)} :
        /\ SqlCall("RepositoryPostgres.update", entity, w)
        /\ pg_table' = w.table

NextSql ==
    \/ \E entity_id \in PgIds, outcome \in DbOutcomes :
           SqlGet(entity_id, outcome)
    \/ \E entity \in Entities(PgIds, PgTitles), outcome, outcome2 \in DbOutcomes :
           SqlAdd(entity, outcome, outcome2)
    \/ \E entity_id \in PgIds, outcome, outcome2 \in DbOutcomes :
           SqlDelete(entity_id, outcome, outcome2)
    \/ \E entity \in Entities(PgIds, PgTitles), outcome, outcome2 \in DbOutcomes :
           SqlUpdate(entity, outcome, outcome2)

SpecSql == SqlInit /\ [][NextSql]_vars

\* C26: a get(k) that found nothing because its query failed leaves no
\* false negative in the cache: a get(k) whose query does not fail returns
\* the record that the database holds for k.
C26_NoFalseNegative ==
    (/\ last.op = "RepositoryPostgres.get"
     /\ last.db # "error"
     /\ HasRow(pg_table, last.arg))
        => last.res = Returned(RowOf(pg_table, last.arg))

---------------------------------------------------------------------------
(* RepositoryOrderedDict (repository_ordered_dict.py) and RepositoryList    *)
(* (repository_list.py).  od is the OrderedDict self.__db of the first, as *)
(* the sequence of its entries [key, value] in insertion order, the value  *)
(* being the entity; lst is the list self.__db of the second.              *)

MemIds == {1, 2}
MemTitles == {<<65>>, <<97, 98>>, <<98>>}
Queries == {<<>>, <<97>>, <<98>>, <<98, 97>>}

\* query in title, for two strings
InString(query, title) ==
    \E i \in 0..(Len(title) - Len(query)) :
        SubSeq(title, i + 1, i + Len(query)) = query

\* list(self.__db.values())
OdValues(o) == [i \in 1..Len(o) |-> o[i].value]

od_get(o, entity_id) ==
    IF Contains(o, entity_id) THEN Returned(GetItem(o, entity_id))
    ELSE Returned(EmptyDict)

od_index(o) == Returned(OdValues(o))

od_add(o, entity) ==
    IF Contains(o, entity.id) THEN [od |-> o, res |-> Returned(-1)]
    ELSE [od |-> SetItem(o, entity.id, entity), res |-> Returned(0)]

od_delete(o, entity_id) ==
    IF Contains(o, entity_id)
    THEN [od |-> Pop(o, entity_id).cache, res |-> Returned(-1)]
    ELSE [od |-> o, res |-> Returned(0)]

od_update(o, entity) ==
    IF Contains(o, entity.id)
    THEN [od |-> SetItem(o, entity.id, entity), res |-> Returned(-1)]
    ELSE [od |-> o, res |-> Returned(0)]

\* search that keeps the titles that start with the query
od_search_prefix(o, query) ==
    Returned(SelectSeq(OdValues(o),
                       LAMBDA entity :
                           /\ Len(query) <= Len(entity.title)
                           /\ SubSeq(entity.title, 1, Len(query)) = query))

od_search(o, query) ==
    Returned(SelectSeq(OdValues(o),
                       LAMBDA entity : InString(query, entity.title)))

\* __get_index: the Python index of the first entity with the id, or -1
list_get_index(l, user_id) ==
    IF \E i \in 1..Len(l) : l[i].id = user_id
    THEN (CHOOSE i \in 1..Len(l) :
              /\ l[i].id = user_id
              /\ \A j \in 1..(i - 1) : l[j].id # user_id) - 1
    ELSE -1

\* the loop reads entity.id, an attribute, of a dict: the first entity of a
\* list that is not empty raises AttributeError
list_get(l, entity_id) ==
    IF Len(l) > 0 THEN Raised("AttributeError")
    ELSE Returned(EmptyDict)

list_index(l) == Returned(l)

\* add without the search for the id
list_add_unchecked(l, entity) == [lst |-> Append(l, entity), res |-> Returned(0)]

list_add(l, entity) ==
    IF list_get_index(l, entity.id) = -1
    THEN [lst |-> Append(l, entity), res |-> Returned(0)]
    ELSE [lst |-> l, res |-> Returned(-1)]

list_delete(l, entity_id) ==
    LET i == list_get_index(l, entity_id)
    IN  IF i # -1
        THEN [lst |-> SubSeq(l, 1, i) \o SubSeq(l, i + 2, Len(l)),
              res |-> Returned(0)]
        ELSE [lst |-> l, res |-> Returned(-1)]

list_update(l, entity) ==
    LET i == list_get_index(l, entity.id)
    IN  IF i # -1
        THEN [lst |-> [l EXCEPT ![i + 1] = entity], res |-> Returned(0)]
        ELSE [lst |-> l, res |-> Returned(-1)]

list_search(l, query) ==
    Returned(SelectSeq(l, LAMBDA entity : InString(query, entity.title)))

(* The two stores as one state machine; a call acts on one of them. *)

MemInit ==
    /\ db = <<>>
    /\ held = {}
    /\ amap = NoMap
    /\ tasks = <<>>
    /\ tomb = <<>>
    /\ last = [op |-> "init", arg |-> 0, res |-> Returned(None)]
    /\ cache = <<>>
    /\ max_size = 0
    /\ touched = <<>>
    /\ latest = {}
    /\ pg_table = {}
    /\ sql_cache = {}
    /\ od = <<>>
    /\ lst = <<>>

\* a call that reads
MemRead(name, arg, res) ==
    /\ last' = [op |-> name, arg |-> arg, res |-> res]
    /\ UNCHANGED <<od, lst, cache_vars, store_vars, pg_vars, tasks>>

\* a call on the ordered-map store that may write
OdWrite(name, arg, w) ==
    /\ od' = w.od
    /\ last' = [op |-> name, arg |-> arg, res |-> w.res]
    /\ UNCHANGED <<lst, cache_vars, store_vars, pg_vars, tasks>>

\* a call on the list store that may write
ListWrite(name, arg, w) ==
    /\ lst' = w.lst
    /\ last' = [op |-> name, arg |-> arg, res |-> w.res]
    /\ UNCHANGED <<od, cache_vars, store_vars, pg_vars, tasks>>

OdGet(entity_id) ==
    \E res \in {od_get(od, entity_id)} :
        MemRead("RepositoryOrderedDict.get", entity_id, res)

OdIndex ==
    \E res \in {od_index(od)} : MemRead("RepositoryOrderedDict.index", 0, res)

OdAdd(entity) ==
    \E w \in {od_add(od, entity)} : OdWrite("RepositoryOrderedDict.add", entity, w)

OdDelete(entity_id) ==
    \E w \in {od_delete(od, entity_id)} :
        OdWrite("RepositoryOrderedDict.delete", entity_id, w)

OdUpdate(entity) ==
    \E w \in {od_update(od, entity)} :
        OdWrite("RepositoryOrderedDict.update", entity, w)

OdSearch(query) ==
    \E res \in {od_search(od, query)} :
        MemRead("RepositoryOrderedDict.search", query, res)

ListGet(entity_id) ==
    \E res \in {list_get(lst, entity_id)} :
        MemRead("RepositoryList.get", entity_id, res)

ListIndex ==
    \E res \in {list_index(lst)} : MemRead("RepositoryList.index", 0, res)

ListAdd(entity) ==
    \E w \in {list_add(lst, entity)} : ListWrite("RepositoryList.add", entity, w)

ListDelete(entity_id) ==
    \E w \in {list_delete(lst, entity_id)} :
        ListWrite("RepositoryList.delete", entity_id, w)

ListUpdate(entity) ==
    \E w \in {list_update(lst, entity)} :
        ListWrite("RepositoryList.update", entity, w)

ListSearch(query) ==
    \E res \in {list_search(lst, query)} :
        MemRead("RepositoryList.search", query, res)

NextMem ==
    \/ \E entity_id \in MemIds : OdGet(entity_id)
    \/ OdIndex
    \/ \E entity \in Entities(MemIds, MemTitles) : OdAdd(entity)
    \/ \E entity_id \in MemIds : OdDelete(entity_id)
    \/ \E entity \in Entities(MemIds, MemTitles) : OdUpdate(entity)
    \/ \E query \in Queries : OdSearch(query)
    \/ \E entity_id \in MemIds : ListGet(entity_id)
    \/ ListIndex
    \/ \E entity \in Entities(MemIds, MemTitles) : ListAdd(entity)
    \/ \E entity_id \in MemIds : ListDelete(entity_id)
    \/ \E entity \in Entities(MemIds, MemTitles) : ListUpdate(entity)
    \/ \E query \in Queries : ListSearch(query)

SpecMem == MemInit /\ [][NextMem]_vars

---------------------------------------------------------------------------
(* Properties of the ordered-map store and the list store *)

\* query occurs in title: title is some text, then query, then some text
Occurs(query, title) ==
    \E i, j \in 0..Len(title) : i <= j /\ SubSeq(title, i + 1, j) = query

\* C27: ordered-map store: delete(id) returns 0 and removes the record
\* when one with that id exists, and returns -1 with the store unchanged
\* otherwise; update(r) returns 0 and replaces the stored fields when r.id
\* exists, and returns -1 with the store unchanged otherwise.
C27_OdDeleteUpdate ==
    [][/\ last'.op = "RepositoryOrderedDict.delete"
            => IF Contains(od, last'.arg)
               THEN /\ last'.res = Returned(0)
                    /\ od' = Without(od, last'.arg)
               ELSE /\ last'.res = Returned(-1)
                    /\ od' = od
       /\ last'.op = "RepositoryOrderedDict.update"
            => IF Contains(od, last'.arg.id)
               THEN /\ last'.res = Returned(0)
                    /\ od_get(od', last'.arg.id) = Returned(last'.arg)
                    /\ Without(od', last'.arg.id) = Without(od, last'.arg.id)
               ELSE /\ last'.res = Returned(-1)
                    /\ od' = od]_vars

\* C28: list store: in every reachable state get(id) returns the stored
\* record with that id when one exists and {} otherwise, and never raises.
C28_ListGet ==
    last.op = "RepositoryList.get"
        => IF \E i \in 1..Len(lst) : lst[i].id = last.arg
           THEN \E i \in 1..Len(lst) :
                    lst[i].id = last.arg /\ last.res = Returned(lst[i])
           ELSE last.res = Returned(EmptyDict)

\* C29: after any sequence of add, update and delete calls each of the two
\* stores holds at most one record per id, and a record is stored under its
\* own id.
C29_OneRecordPerId ==
    /\ \A i, j \in 1..Len(lst) : lst[i].id = lst[j].id => i = j
    /\ \A i, j \in 1..Len(od) : od[i].key = od[j].key => i = j
    /\ \A i \in 1..Len(od) : od[i].value.id = od[i].key

\* both stores hold two records and the list store has refused an add of a
\* stored id with another title
C29_Witness ==
    /\ last.op = "RepositoryList.add"
    /\ last.res = Returned(-1)
    /\ Len(lst) = 2
    /\ Len(od) = 2
    /\ \A i \in 1..Len(lst) : lst[i] # last.arg

\* C30: search(query) returns exactly the stored records whose title
\* contains query as a case-sensitive substring, in storage order, and an
\* empty sequence when none match.
C30_Search ==
    /\ last.op = "RepositoryList.search"
         => last.res = Returned(SelectSeq(lst,
                LAMBDA r : Occurs(last.arg, r.title)))
    /\ last.op = "RepositoryOrderedDict.search"
         => last.res = Returned(SelectSeq(OdValues(od),
                LAMBDA r : Occurs(last.arg, r.title)))

\* a search of the ordered-map store that returns the second of two stored
\* records, whose title holds the query after its first character
C30_Witness ==
    /\ last.op = "RepositoryOrderedDict.search"
    /\ Len(od) = 2
    /\ last.arg = <<98>>
    /\ last.res = Returned(<<od[2].value>>)
    /\ od[2].value.title = <<97, 98>>

---------------------------------------------------------------------------
(* list_paginated of the ordered-map store and of the list store *)

\* a Python index i of a list of n elements: the element it reads
ListIndexOk(n, i) == i >= -n /\ i < n

ListAt(l, i) == l[IF i >= 0 THEN i + 1 ELSE Len(l) + i + 1]

\* l[a:b], with Python's clamping of the two bounds
ListSliceBound(n, a) ==
    IF a < 0 THEN (IF n + a < 0 THEN 0 ELSE n + a)
    ELSE (IF a > n THEN n ELSE a)

ListSlice(l, a, b) ==
    SubSeq(l, ListSliceBound(Len(l), a) + 1, ListSliceBound(Len(l), b))

\* list_paginated that starts page p at offset p * PAGE_LIMIT
list_list_paginated_next_page(l, page) ==
    Returned(ListSlice(l, page * PAGE_LIMIT, page * PAGE_LIMIT + PAGE_LIMIT))

list_list_paginated(l, page) ==
    LET offset == (page - 1) * PAGE_LIMIT
        limit == offset + PAGE_LIMIT
    IN  Returned(ListSlice(l, offset, limit))

\* the loop appends dict_list[i] for i from offset on and breaks at the
\* first IndexError
od_list_paginated(o, page) ==
    LET offset == (page - 1) * PAGE_LIMIT
        dict_list == OdValues(o)
        n == Len(dict_list)
        read == {i \in offset..(offset + PAGE_LIMIT - 1) :
                     \A j \in offset..i : ListIndexOk(n, j)}
    IN  Returned([k \in 1..Cardinality(read) |->
                      ListAt(dict_list, offset + k - 1)])

(* The two stores with more records than one page holds: a record is added *)
(* under the id after the largest stored one, and the records of a few ids *)
(* are deleted, which moves the later records one position up.             *)

MaxRecords == 12
PageTitles == {<<65>>}
PageDeleteIds == {1, MaxRecords - 1}
PageNumbers == {1, 2, 3}

\* the id after the largest id of a sequence of entities, within MaxRecords
NextIds(l) ==
    LET ids == {l[i].id : i \in 1..Len(l)}
        top == IF ids = {} THEN 0 ELSE CHOOSE m \in ids : \A k \in ids : k <= m
    IN  {top + 1} \cap (1..MaxRecords)

OdListPaginated(page) ==
    \E res \in {od_list_paginated(od, page)} :
        MemRead("RepositoryOrderedDict.list_paginated", page, res)

ListListPaginated(page) ==
    \E res \in {list_list_paginated(lst, page)} :
        MemRead("RepositoryList.list_paginated", page, res)

NextPages ==
    \/ OdIndex
    \/ \E page \in PageNumbers : OdListPaginated(page)
    \/ \E entity \in Entities(NextIds(OdValues(od)), PageTitles) : OdAdd(entity)
    \/ \E entity_id \in PageDeleteIds : OdDelete(entity_id)
    \/ ListIndex
    \/ \E page \in PageNumbers : ListListPaginated(page)
    \/ \E entity \in Entities(NextIds(lst), PageTitles) : ListAdd(entity)
    \/ \E entity_id \in PageDeleteIds : ListDelete(entity_id)

SpecPages == MemInit /\ [][NextPages]_vars

\* the records at the positions [(page-1)*10, page*10) of a sequence
PageOf(records, page) ==
    LET first == (page - 1) * PAGE_LIMIT + 1
        stop == IF page * PAGE_LIMIT < Len(records) THEN page * PAGE_LIMIT
                ELSE Len(records)
    IN  [k \in 1..(IF stop >= first THEN stop - first + 1 ELSE 0) |->
             records[first + k - 1]]

\* the pages 1..n of a store, one after the other
RECURSIVE PagesUpTo(_, _, _)
PagesUpTo(paginated(_, _), store, n) ==
    IF n = 0 THEN <<>>
    ELSE PagesUpTo(paginated, store, n - 1) \o paginated(store, n).val

\* C31: for every page >= 1, list_paginated(page) returns the records at
\* the positions [(page-1)*10, page*10) of index() order, an empty sequence
\* past the end, and the pages 1..ceil(count/10) together hold every record
\* of index() exactly once.
C31_MemPagination ==
    /\ last.op = "RepositoryList.list_paginated"
         => last.res = Returned(PageOf(list_index(lst).val, last.arg))
    /\ last.op = "RepositoryOrderedDict.list_paginated"
         => last.res = Returned(PageOf(od_index(od).val, last.arg))
    /\ PagesUpTo(list_list_paginated, lst,
                 (Len(lst) + PAGE_LIMIT - 1) \div PAGE_LIMIT)
           = list_index(lst).val
    /\ PagesUpTo(od_list_paginated, od,
                 (Len(od) + PAGE_LIMIT - 1) \div PAGE_LIMIT)
           = od_index(od).val

\* page 2 of the ordered-map store that holds the records 2..12: the
\* eleventh record alone
C31_Witness ==
    /\ last.op = "RepositoryOrderedDict.list_paginated"
    /\ last.arg = 2
    /\ Len(od) = 11
    /\ od[1].key = 2
    /\ last.res = Returned(<<od[11].value>>)

---------------------------------------------------------------------------
(* Slots of the byte buffer: padding, occupancy, isolation *)

\* C32: an update(r) of an occupied slot whose text is shorter than the text
\* stored there succeeds and leaves every byte of the slot beyond the new
\* text zero, so that get(r.id) decodes exactly r with no byte of the text
\* stored before.
C32_UpdateZeroFill ==
    [][(/\ last'.op = "update"
        /\ last'.arg.id \in 1..db_length
        /\ Occupied(db, last'.arg.id)
        /\ Len(TextOf(last'.arg))
             < Len(SlotText(db, get_address(last'.arg.id)[1])))
         => /\ last'.res = Returned(0)
            /\ SlotBytes(db', last'.arg.id) = Padded(TextOf(last'.arg))
            /\ get(db', last'.arg.id) = Returned(last'.arg)]_vars

\* C33: occupancy: with ids in 1..N and texts that fit one slot, the first
\* byte of slot k is not zero exactly when a record was added at k and not
\* deleted since; the text of a record never starts with a zero byte, and
\* a slot that holds no record is zero in every byte.
C33_Occupancy ==
    /\ \A k \in 1..db_length : Occupied(db, k) <=> k \in held
    /\ \A k \in (1..db_length) \ held :
           SlotBytes(db, k) = [i \in 1..entry_length |-> 0]
    /\ \A entity \in Entities(ValidIds, FitTitles) : TextOf(entity)[1] # 0
    /\ (last.op = "add" /\ last.res = Returned(0))
         => db[get_address(last.arg.id)[1]] = TextOf(last.arg)[1]

\* a delete that emptied a slot while the record of another id stays
C33_Witness ==
    /\ last.op = "delete"
    /\ last.res = Returned(0)
    /\ last.arg \notin held
    /\ SlotBytes(db, last.arg) = [i \in 1..entry_length |-> 0]
    /\ \E k \in held : Occupied(db, k)

\* C34: slot isolation: add(r), update(r) and delete(k) for an id k in 1..N
\* change only bytes of slot k, whatever the length of r's text.
C34_SlotIsolation ==
    [][\A k \in 1..db_length :
          (\/ last'.op \in {"add", "update"} /\ last'.arg.id = k
           \/ last'.op = "delete" /\ last'.arg = k)
            => \A j \in 0..(DbLen - 1) :
                   (j < (k - 1) * entry_length \/ j >= k * entry_length)
                     => db'[j] = db[j]]_vars

---------------------------------------------------------------------------
(* The byte buffer against the map from id to record: add, delete and get  *)
(* with ids in 1..N and texts that fit one slot, and the map kept next to  *)
(* the store.                                                              *)

MapInit ==
    /\ db = [j \in 0..(DbLen - 1) |-> 0]
    /\ last = [op |-> "init", arg |-> 0, res |-> Returned(0)]
    /\ held = {}
    /\ tomb = <<>>
    /\ amap = [kept |-> TRUE, map |-> {}]
    /\ tasks = <<>>
    /\ cache = <<>>
    /\ max_size = 0
    /\ touched = <<>>
    /\ latest = {}
    /\ pg_table = {}
    /\ sql_cache = {}
    /\ od = <<>>
    /\ lst = <<>>

NextMap ==
    \/ \E entity_id \in ValidIds : Get(entity_id)
    \/ \E entity \in Entities(ValidIds, FitTitles) : Add(entity)
    \/ \E entity_id \in ValidIds : Delete(entity_id)

SpecMap == MapInit /\ [][NextMap]_vars

\* C35: for every sequence of add, delete and get calls with ids in 1..N and
\* texts that fit one slot, each call returns what the same call returns on
\* the map from id to record with existence-gated add and delete, and the
\* records the buffer holds are those of the map.
C35_RefinesMap ==
    /\ [][/\ last'.op = "get" => last'.res = MapGet(amap.map, last'.arg)
          /\ last'.op = "add" => last'.res = MapAdd(amap.map, last'.arg).res
          /\ last'.op = "delete"
               => last'.res = MapDelete(amap.map, last'.arg).res]_vars
    /\ [](\A k \in 1..db_length : get(db, k) = MapGet(amap.map, k))

\* a get that returns the record added again with another title after a
\* delete of its id, while the map holds a second record
C35_Witness ==
    /\ last.op = "get"
    /\ last.res.val # EmptyDict
    /\ last.res = MapGet(amap.map, last.arg)
    /\ Cardinality(amap.map) = 2
    /\ last.arg \in held
    /\ last.res.val.title = <<34, 92, 233>>

---------------------------------------------------------------------------
(* Coherence of the LRU cache of RepositoryAsyncpg with the table *)

\* every cached entry is the row the table holds under its key
Coherent(c, t) ==
    \A i \in 1..Len(c) :
        /\ HasRow(t, c[i].key)
        /\ c[i].value = RowOf(t, c[i].key)

\* C36: cache coherence of the cached backend: after any sequence of get,
\* add, update and delete calls that each run to completion, every entry of
\* the LRU cache equals the row the table holds for that id, and no id that
\* the table does not hold is cached.
C36_CacheCoherence == Coherent(cache, pg_table)

\* an update of a cached id that removed its entry and left the entry of
\* the other id, which is still the row of the table
C36_Witness ==
    /\ last.op = "RepositoryAsyncpg.update"
    /\ last.res = Returned(0)
    /\ Len(last.before) = 2
    /\ Len(cache) = 1
    /\ cache[1].value = RowOf(pg_table, cache[1].key)
    /\ RowOf(pg_table, last.arg.id) # RowOf(last.table, last.arg.id)

---------------------------------------------------------------------------
(* RepositoryAsyncpg with its coroutines interleaved.  A call runs without *)
(* interruption from one await to the next.  It is suspended while it      *)
(* awaits __make_query; the database executes the query at some moment of  *)
(* that wait, and the call goes on at a later one; the steps of the other  *)
(* tasks come in between.  Every query succeeds here.                      *)
(* tasks[t] is the frame of task t: pc is "idle" (no call), "await" (the   *)
(* query is sent) or "fetched" (the database has executed it); results is  *)
(* what the query returned.                                                *)

Tasks == {1, 2}

NoEntity == [id |-> 0, title |-> <<>>, value |-> <<>>]

Idle == [pc |-> "idle", op |-> "none", id |-> 0, entity |-> NoEntity,
         results |-> <<>>]

Awaiting(name, entity_id, entity) ==
    [pc |-> "await", op |-> name, id |-> entity_id, entity |-> entity,
     results |-> <<>>]

TaskInit ==
    /\ db = <<>>
    /\ held = {}
    /\ tomb = <<>>
    /\ amap = NoMap
    /\ last = [op |-> "init", arg |-> 0, res |-> Returned(None), task |-> 0]
    /\ cache = <<>>
    /\ max_size = CACHE_SIZE
    /\ touched = <<>>
    /\ latest = {}
    /\ pg_table \in PgTables
    /\ sql_cache = {}
    /\ od = <<>>
    /\ lst = <<>>
    /\ tasks = [t \in Tasks |-> Idle]

\* the call of task t returns res
TaskReturn(t, name, arg, res) ==
    /\ last' = [op |-> name, arg |-> arg, res |-> res, task |-> t]
    /\ tasks' = [tasks EXCEPT ![t] = Idle]

\* the call of task t is suspended at "await self.__make_query(...)"
TaskAwait(t, name, entity_id, entity) ==
    /\ last' = [op |-> "await", arg |-> entity_id, res |-> Returned(None),
                task |-> t]
    /\ tasks' = [tasks EXCEPT ![t] = Awaiting(name, entity_id, entity)]

\* get, from the call to the return on a cache hit or to the await
TaskGet(t, entity_id) ==
    /\ tasks[t].pc = "idle"
    /\ \E hit \in {cache_get(cache, entity_id)} :
          IF ~Contains(cache, entity_id)
          THEN /\ TaskAwait(t, "get", entity_id, NoEntity)
               /\ UNCHANGED cache
          ELSE /\ TaskReturn(t, "RepositoryAsyncpg.get", entity_id, hit.res)
               /\ cache' = hit.cache
    /\ UNCHANGED <<max_size, touched, latest, pg_vars, store_vars, mem_vars>>

\* add: the coroutine self.get(...) is compared with {}
TaskAdd(t, entity) ==
    /\ tasks[t].pc = "idle"
    /\ IF Unawaited = EmptyDict
       THEN TaskAwait(t, "add", entity.id, entity)
       ELSE TaskReturn(t, "RepositoryAsyncpg.add", entity, Returned(-1))
    /\ UNCHANGED <<cache_vars, pg_vars, store_vars, mem_vars>>

TaskDelete(t, entity_id) ==
    /\ tasks[t].pc = "idle"
    /\ IF Unawaited # EmptyDict
       THEN TaskAwait(t, "delete", entity_id, NoEntity)
       ELSE TaskReturn(t, "RepositoryAsyncpg.delete", entity_id, Returned(-1))
    /\ UNCHANGED <<cache_vars, pg_vars, store_vars, mem_vars>>

TaskUpdate(t, entity) ==
    /\ tasks[t].pc = "idle"
    /\ IF Unawaited # EmptyDict
       THEN TaskAwait(t, "update", entity.id, entity)
       ELSE TaskReturn(t, "RepositoryAsyncpg.update", entity, Returned(-1))
    /\ UNCHANGED <<cache_vars, pg_vars, store_vars, mem_vars>>

\* __make_query: the database executes the query task t has sent
TaskQuery(t) ==
    /\ tasks[t].pc = "await"
    /\ \E f \in {tasks[t]} :
          /\ pg_table' =
                CASE f.op = "get" -> pg_table
                  [] f.op = "add" -> InsertRow(pg_table, f.entity).table
                  [] f.op = "delete" -> DeleteRow(pg_table, f.id)
                  [] f.op = "update" -> UpdateRow(pg_table, f.entity)
          /\ tasks' = [tasks EXCEPT ![t] =
                [f EXCEPT !.pc = "fetched",
                          !.results = IF f.op = "get"
                                      THEN SelectById(pg_table, f.id)
                                      ELSE <<>>]]
          /\ last' = [op |-> "query", arg |-> f.id, res |-> Returned(None),
                      task |-> t]
    /\ UNCHANGED <<cache_vars, sql_cache, store_vars, mem_vars>>

\* the call of task t goes on after its await, up to its return
TaskResume(t) ==
    /\ tasks[t].pc = "fetched"
    /\ \E f \in {tasks[t]} :
          CASE f.op = "get" ->
                 IF Len(f.results) = 0
                 THEN /\ TaskReturn(t, "RepositoryAsyncpg.get", f.id,
                                    Returned(EmptyDict))
                      /\ UNCHANGED cache
                 ELSE /\ TaskReturn(t, "RepositoryAsyncpg.get", f.id,
                                    Returned(f.results[1]))
                      /\ cache' = cache_put(cache, max_size, f.id,
                                            f.results[1]).cache
            [] f.op = "add" ->
                 /\ TaskReturn(t, "RepositoryAsyncpg.add", f.entity, Returned(0))
                 /\ cache' = cache_put(cache, max_size, f.id, f.entity).cache
            [] f.op = "delete" ->
                 /\ TaskReturn(t, "RepositoryAsyncpg.delete", f.id, Returned(0))
                 /\ cache' = cache_delete(cache, f.id).cache
            [] f.op = "update" ->
                 /\ TaskReturn(t, "RepositoryAsyncpg.update", f.entity,
                               Returned(0))
                 /\ cache' = cache_delete(cache, f.id).cache
    /\ UNCHANGED <<max_size, touched, latest, pg_vars, store_vars, mem_vars>>

NextTasks ==
    \/ \E t \in Tasks, entity_id \in PgIds : TaskGet(t, entity_id)
    \/ \E t \in Tasks, entity \in Entities(PgIds, PgTitles) : TaskAdd(t, entity)
    \/ \E t \in Tasks, entity_id \in PgIds : TaskDelete(t, entity_id)
    \/ \E t \in Tasks, entity \in Entities(PgIds, PgTitles) : TaskUpdate(t, entity)
    \/ \E t \in Tasks : TaskQuery(t)
    \/ \E t \in Tasks : TaskResume(t)

SpecTasks == TaskInit /\ [][NextTasks]_vars

\* C37: when a get(k) that missed the cache is suspended at its query while
\* an update(k) or a delete(k) runs to completion, the cache holds, after
\* both have finished, no entry for k that differs from the table's row: in
\* every state in which no call is in flight the cache agrees with the
\* table.
C37_NoStaleReinsert ==
    (\A t \in Tasks : tasks[t].pc = "idle") => Coherent(cache, pg_table)

\* C38: of two add calls for the same id made by two tasks, one after the
\* other with no other return between them, at most one returns Success, and
\* both return AlreadyExists only when the table holds a row with the id.
C38_AddOnce ==
    [][(/\ last.op = "RepositoryAsyncpg.add"
        /\ last'.op = "RepositoryAsyncpg.add"
        /\ last.task # last'.task
        /\ last.arg.id = last'.arg.id)
         => /\ ~(last.res = Returned(0) /\ last'.res = Returned(0))
            /\ (last.res = Returned(-1) /\ last'.res = Returned(-1))
                 => HasRow(pg_table', last'.arg.id)]_vars

---------------------------------------------------------------------------
(* RepositoryPostgres with a database that answers every query *)

NextSqlOk ==
    \/ \E entity_id \in PgIds : SqlGet(entity_id, "ok")
    \/ \E entity \in Entities(PgIds, PgTitles) : SqlAdd(entity, "ok", "ok")
    \/ \E entity_id \in PgIds : SqlDelete(entity_id, "ok", "ok")
    \/ \E entity \in Entities(PgIds, PgTitles) : SqlUpdate(entity, "ok", "ok")

SpecSqlOk == SqlInit /\ [][NextSqlOk]_vars

IsSqlWrite(call) ==
    call.op \in {"RepositoryPostgres.add", "RepositoryPostgres.delete",
                 "RepositoryPostgres.update"}

\* C39: every add, update or delete that returns Success empties the whole
\* get-cache, and, with all queries succeeding, a get(k) after any sequence
\* of calls returns the row the table holds for k, or {} when it holds
\* none.
C39_GetCurrent ==
    [][/\ (IsSqlWrite(last') /\ last'.res = Returned(0)) => sql_cache' = {}
       /\ last'.op = "RepositoryPostgres.get"
            => last'.res = Returned(FirstOrEmpty(SelectById(pg_table,
                                                            last'.arg)))]_vars

\* an update that changed the row of an id whose old row was in the cache,
\* and emptied the cache
C39_Witness ==
    /\ last.op = "RepositoryPostgres.update"
    /\ last.res = Returned(0)
    /\ InSqlCache(last.before, last.arg.id)
    /\ SqlCached(last.before, last.arg.id) # SelectById(pg_table, last.arg.id)
    /\ Cardinality(last.before) = 2
    /\ sql_cache = {}

====
